---- MODULE Spec2Model ----
(***************************************************************************)
(* A model of ai_study.cpp: the JSON-block extraction, the summary and     *)
(* flashcard parsers, the session flow of main() and the terminal          *)
(* flashcard viewer.  Strings are sequences of one-character strings.      *)
(***************************************************************************)
EXTENDS Integers, Sequences, FiniteSets, TLC

\* ------------------------------------------------------------------ bounds
MaxDeck == 3      \* largest deck handed to the viewer
MaxInput == 4     \* most lines on standard input before end of stream
MaxLen == 4       \* longest assistant content given to extract_json_block
MaxArr == 2       \* longest JSON array given to the parsers

\* ---------------------------------------------------------- program constants
IntMax == 2147483647    \* largest value std::stoi can return (int)
IntMaxDiv10 == IntMax \div 10
IntMaxMod10 == IntMax % 10

VARIABLES
    deck,        \* FlashcardResult::flashcards handed to run_flashcard_viewer
    idx,         \* int idx
    showAnswer,  \* bool showAnswer
    cmd,         \* std::string cmd
    vpc,         \* position inside run_flashcard_viewer
    screen,      \* what the terminal shows
    avail,       \* lines left on std::cin before end of stream
    nread,       \* lines the viewer has taken from std::cin
    lastRead,    \* history: outcome of the viewer's last std::getline
    prev,        \* history: idx and showAnswer before the last line was handled
    nextRun,     \* history: length of the current run of consecutive next commands
    runStart     \* history: idx when that run began

viewerVars == <<deck, idx, showAnswer, cmd, vpc, screen, avail, nread,
                lastRead, prev, nextRun, runStart>>

VARIABLES
    content,     \* extract_json_block: the assistant message content
    extracted,   \* extract_json_block: the block returned, or the exception thrown
    epc          \* extract_json_block: "ready" before the call, "done" after

extractVars == <<content, extracted, epc>>

VARIABLES
    parser,      \* which result is being filled: "summary" or "flashcards"
    jsonIn,      \* the value json::parse returned for the extracted block
    parsed,      \* the SummaryResult / FlashcardResult, or the exception thrown
    ppc          \* "ready" before the fields are read, "done" after

parseVars == <<parser, jsonIn, parsed, ppc>>

VARIABLES
    pc,          \* position inside main()
    choice,      \* int choice
    choiceIn,    \* history: what stood on std::cin when the choice was read
    cinFail,     \* failbit of std::cin
    userText,    \* std::string userText
    sent,        \* the requests curl_easy_perform has carried out, in order
    ran,         \* history: the flows main() has started, in order
    summaryOut,  \* the summary printed on std::cout
    exc,         \* the exception in flight or caught
    stderrOut,   \* the last message on std::cerr
    exitCode,    \* the value main() returned
    curlGlobal   \* libcurl's global state

mainVars == <<pc, choice, choiceIn, cinFail, userText, sent, ran, summaryOut,
              exc, stderrOut, exitCode, curlGlobal>>

vars == <<viewerVars, extractVars, parseVars, mainVars>>

\* ------------------------------------------------------------- characters
Digits == {"0", "1", "2", "3", "4", "5", "6", "7", "8", "9"}

DigitVal(c) ==
    CASE c = "0" -> 0 [] c = "1" -> 1 [] c = "2" -> 2 [] c = "3" -> 3
      [] c = "4" -> 4 [] c = "5" -> 5 [] c = "6" -> 6 [] c = "7" -> 7
      [] c = "8" -> 8 [] c = "9" -> 9

\* the characters std::isspace accepts, skipped by std::stoi
IsSpace == {" ", "\t", "\n", "\r", "\f"}

\* the set find_first_not_of(" \t") skips
TrimSet == {" ", "\t"}

\* ------------------------------------------------------------- std::stoi
\* Magnitude of a digit string: 0..IntMax, or -1 for exactly IntMax+1,
\* or -2 for anything larger (neither fits a positive int).
RECURSIVE Magnitude(_)
Magnitude(ds) ==
    IF ds = <<>> THEN 0
    ELSE LET hi == Magnitude(SubSeq(ds, 1, Len(ds) - 1))
             d  == DigitVal(ds[Len(ds)])
         IN  IF hi < 0 THEN -2
             ELSE IF hi < IntMaxDiv10 \/ (hi = IntMaxDiv10 /\ d <= IntMaxMod10)
                  THEN hi * 10 + d
             ELSE IF hi = IntMaxDiv10 /\ d = IntMaxMod10 + 1 THEN -1
             ELSE -2

\* index of the first character at or after i that is not in set S (Len+1 if none)
RECURSIVE SkipWhile(_, _, _)
SkipWhile(s, i, S) ==
    IF i <= Len(s) /\ s[i] \in S THEN SkipWhile(s, i + 1, S) ELSE i

\* std::stoi(s): skip white space, an optional sign, then the longest run of
\* digits; invalid_argument without a digit, out_of_range outside int.
StoI(s) ==
    LET start  == SkipWhile(s, 1, IsSpace)
        signed == start <= Len(s) /\ s[start] \in {"+", "-"}
        neg    == signed /\ s[start] = "-"
        dstart == IF signed THEN start + 1 ELSE start
        dend   == SkipWhile(s, dstart, Digits)
        mag    == Magnitude(SubSeq(s, dstart, dend - 1))
    IN  IF dend = dstart
        THEN [ok |-> FALSE, err |-> "invalid_argument", val |-> 0, neg |-> neg]
        ELSE IF mag >= 0
        THEN [ok |-> TRUE, err |-> "", val |-> IF neg THEN -mag ELSE mag, neg |-> neg]
        ELSE IF mag = -1 /\ neg
        THEN [ok |-> TRUE, err |-> "", val |-> (-IntMax) - 1, neg |-> neg]
        ELSE [ok |-> FALSE, err |-> "out_of_range", val |-> 0, neg |-> neg]

\* ------------------------------------------------------ the command line
\* size_t p = cmd.find_first_not_of(" \t"); if (p != npos) cmd = cmd.substr(p);
TrimLeading(s) ==
    LET p == SkipWhile(s, 1, TrimSet)
    IN  IF p <= Len(s) THEN SubSeq(s, p, Len(s)) ELSE s

StartsWith(s, w) == Len(s) >= Len(w) /\ SubSeq(s, 1, Len(w)) = w

W_f == <<"f">>
W_flip == <<"f", "l", "i", "p">>
W_n == <<"n">>
W_next == <<"n", "e", "x", "t">>
W_p == <<"p">>
W_prev == <<"p", "r", "e", "v">>
W_r == <<"r">>
W_random == <<"r", "a", "n", "d", "o", "m">>
W_jump == <<"j", "u", "m", "p">>
W_q == <<"q">>
W_quit == <<"q", "u", "i", "t">>

BranchWithoutQuit(c) ==
    IF c = W_f \/ c = W_flip THEN "flip"
    ELSE IF c = W_n \/ c = W_next THEN "next"
    ELSE IF c = W_p \/ c = W_prev THEN "prev"
    ELSE IF c = W_r \/ c = W_random THEN "random"
    ELSE IF Len(c) > 2 /\ (c[1] = "j" \/ StartsWith(c, W_jump)) THEN "jump"
    ELSE "other"

\* the if / else-if chain of the loop body, in the order of the code
Branch(c) ==
    IF c = W_f \/ c = W_flip THEN "flip"
    ELSE IF c = W_n \/ c = W_next THEN "next"
    ELSE IF c = W_p \/ c = W_prev THEN "prev"
    ELSE IF c = W_r \/ c = W_random THEN "random"
    ELSE IF Len(c) > 2 /\ (c[1] = "j" \/ StartsWith(c, W_jump)) THEN "jump"
    ELSE IF c = W_q \/ c = W_quit THEN "quit"
    ELSE "other"

\* for (char c : cmd) if ((c >= '0' && c <= '9') || c == '-') numstr.push_back(c);
IsNumChar(ch) == ch \in Digits \/ ch = "-"
NumStr(c) == SelectSeq(c, IsNumChar)

NextIdxNoWrap(i, n) == i + 1
NextIdx(i, n) == (i + 1) % n

PrevIdxNoWrap(i, n) == i - 1
PrevIdx(i, n) == (i - 1 + n) % n

InRange(t, n) == t >= 1 /\ t <= n

\* the jump branch: the card number it selects, or 0 when it selects none
JumpTarget(c, n) ==
    LET numstr == NumStr(c)
        r      == StoI(numstr)
    IN  IF numstr # <<>> /\ r.ok /\ InRange(r.val, n) THEN r.val ELSE 0

\* the final else branch: the card number it selects, or 0 when it selects none
BareTarget(c, n) ==
    LET r == StoI(c)
    IN  IF r.ok /\ InRange(r.val, n) THEN r.val ELSE 0

\* ---------------------------------------------------------------- input
\* The lines the model feeds to std::getline.
Lines ==
    { <<>>,
      W_f, W_flip, W_n, W_next, W_p, W_prev, W_r, W_random, W_q, W_quit,
      <<"j", " ", "1">>, <<"j", " ", "2">>, <<"j", " ", "0">>,
      <<"j", " ", "5">>, <<"j", " ", "-", "1">>,
      <<"j", "u", "m", "p", " ", "3">>, <<"j", "u", "m", "p", " ", "4">>,
      <<"j", "u", "m", "p", " ", "x">>, W_jump, <<"j", " ", "-">>,
      <<"j", " ", "x", "2">>, <<"j", "e", "t", " ", "1">>, <<"j", "2">>,
      <<"j", " ", "9", "9", "9", "9", "9", "9", "9", "9", "9", "9", "9">>,
      <<"1">>, <<"2">>, <<"3">>, <<"0">>, <<"5">>, <<"-", "1">>,
      <<"2", "x">>, <<"+", "1">>,
      <<" ", "n">>, <<"\t", "f">>, <<" ", " ", "2">>, <<" ", "q">>,
      <<"F">>, <<"N", "e", "x", "t">>, <<"Q">>, <<"n", " ">>,
      <<" ", " ">>, <<"x">>, <<"f", "l">>, <<"n", "o">>, <<"q", "u", "i", "t", "e">> }

Card == [question |-> <<"Q">>, answer |-> <<"A">>]
DeckOfSize(n) == [i \in 1..n |-> Card]

\* --------------------------------------------------- run_flashcard_viewer
\* if (deck.flashcards.empty()) { notice; return; }  int idx = 0; ...
ViewerStart ==
    /\ vpc = "start"
    /\ IF Len(deck) = 0
       THEN /\ screen' = [kind |-> "notice"]
            /\ vpc' = "done"
       ELSE /\ screen' = screen
            /\ vpc' = "display"
    /\ idx' = 0
    /\ showAnswer' = FALSE
    /\ cmd' = <<>>
    /\ UNCHANGED <<deck, avail, nread, lastRead, prev, nextRun, runStart>>
    /\ UNCHANGED <<extractVars, parseVars, mainVars>>

\* display_card(deck.flashcards[idx], idx, size, showAnswer)
Rendering(d, i, show) ==
    [ kind |-> "card", index |-> i + 1, total |-> Len(d), question |-> d[i + 1].question,
      answer |-> IF show THEN d[i + 1].answer ELSE <<"[hidden]">> ]

DisplayCard ==
    /\ vpc = "display"
    /\ screen' = Rendering(deck, idx, showAnswer)
    /\ vpc' = "getline"
    /\ UNCHANGED <<deck, idx, showAnswer, cmd, avail, nread, lastRead, prev, nextRun, runStart>>
    /\ UNCHANGED <<extractVars, parseVars, mainVars>>

\* std::getline succeeded with this line
GetLine(line) ==
    /\ vpc = "getline"
    /\ avail > 0
    /\ line \in Lines
    /\ avail' = avail - 1
    /\ nread' = nread + 1
    /\ lastRead' = "line"
    /\ prev' = [idx |-> idx, show |-> showAnswer]
    /\ UNCHANGED <<extractVars, parseVars, mainVars>>

\* if (!std::getline(std::cin, cmd)) break;  ...  clear_screen();
\* cmd is erased when the stream was still good, left alone when it was
\* already at end of file.
ReadEof ==
    /\ vpc = "getline"
    /\ avail = 0
    /\ cmd' \in {<<>>, cmd}
    /\ vpc' = "done"
    /\ screen' = [kind |-> "cleared"]
    /\ lastRead' = "eof"
    /\ UNCHANGED <<deck, idx, showAnswer, avail, nread, prev, nextRun, runStart>>
    /\ UNCHANGED <<extractVars, parseVars, mainVars>>

\* if (cmd.empty()) continue;
ReadEmpty ==
    /\ GetLine(<<>>)
    /\ cmd' = <<>>
    /\ vpc' = "display"
    /\ nextRun' = 0
    /\ runStart' = idx
    /\ UNCHANGED <<deck, idx, showAnswer, screen>>

CmdFlip ==
    \E line \in Lines \ {<<>>} :
        /\ GetLine(line)
        /\ Branch(TrimLeading(line)) = "flip"
        /\ cmd' = TrimLeading(line)
        /\ showAnswer' = ~showAnswer
        /\ vpc' = "display"
        /\ nextRun' = 0
        /\ runStart' = idx
        /\ UNCHANGED <<deck, idx, screen>>

CmdNext ==
    \E line \in Lines \ {<<>>} :
        /\ GetLine(line)
        /\ Branch(TrimLeading(line)) = "next"
        /\ cmd' = TrimLeading(line)
        /\ idx' = NextIdx(idx, Len(deck))
        /\ showAnswer' = FALSE
        /\ vpc' = "display"
        /\ nextRun' = nextRun + 1
        /\ runStart' = IF nextRun = 0 THEN idx ELSE runStart
        /\ UNCHANGED <<deck, screen>>

CmdPrev ==
    \E line \in Lines \ {<<>>} :
        /\ GetLine(line)
        /\ Branch(TrimLeading(line)) = "prev"
        /\ cmd' = TrimLeading(line)
        /\ idx' = PrevIdx(idx, Len(deck))
        /\ showAnswer' = FALSE
        /\ vpc' = "display"
        /\ nextRun' = 0
        /\ runStart' = idx'
        /\ UNCHANGED <<deck, screen>>

\* std::uniform_int_distribution<int> dist(0, size - 1); idx = dist(rng);
CmdRandom ==
    \E line \in Lines \ {<<>>} :
        /\ GetLine(line)
        /\ Branch(TrimLeading(line)) = "random"
        /\ cmd' = TrimLeading(line)
        /\ idx' \in 0..(Len(deck) - 1)
        /\ showAnswer' = FALSE
        /\ vpc' = "display"
        /\ nextRun' = 0
        /\ runStart' = idx'
        /\ UNCHANGED <<deck, screen>>

GoToKeepsAnswer(target) ==
    /\ idx' = IF target # 0 THEN target - 1 ELSE idx
    /\ showAnswer' = showAnswer
    /\ vpc' = "display"
    /\ nextRun' = 0
    /\ runStart' = idx'
    /\ UNCHANGED <<deck, screen>>

\* the effect shared by the jump branch and the final else branch
GoTo(target) ==
    /\ idx' = IF target # 0 THEN target - 1 ELSE idx
    /\ showAnswer' = IF target # 0 THEN FALSE ELSE showAnswer
    /\ vpc' = "display"
    /\ nextRun' = 0
    /\ runStart' = idx'
    /\ UNCHANGED <<deck, screen>>

CmdJump ==
    \E line \in Lines \ {<<>>} :
        /\ GetLine(line)
        /\ Branch(TrimLeading(line)) = "jump"
        /\ cmd' = TrimLeading(line)
        /\ GoTo(JumpTarget(TrimLeading(line), Len(deck)))

CmdQuit ==
    \E line \in Lines \ {<<>>} :
        /\ GetLine(line)
        /\ Branch(TrimLeading(line)) = "quit"
        /\ cmd' = TrimLeading(line)
        /\ vpc' = "done"
        /\ screen' = [kind |-> "cleared"]
        /\ UNCHANGED <<deck, idx, showAnswer, nextRun, runStart>>

CmdOther ==
    \E line \in Lines \ {<<>>} :
        /\ GetLine(line)
        /\ Branch(TrimLeading(line)) = "other"
        /\ cmd' = TrimLeading(line)
        /\ GoTo(BareTarget(TrimLeading(line), Len(deck)))

ViewerStep ==
    \/ ViewerStart
    \/ DisplayCard
    \/ ReadEof
    \/ ReadEmpty
    \/ CmdFlip
    \/ CmdNext
    \/ CmdPrev
    \/ CmdRandom
    \/ CmdJump
    \/ CmdQuit
    \/ CmdOther

ViewerInit ==
    /\ deck \in {DeckOfSize(n) : n \in 0..MaxDeck}
    /\ idx = 0
    /\ showAnswer = FALSE
    /\ cmd = <<>>
    /\ vpc = "start"
    /\ screen = [kind |-> "none"]
    /\ avail \in 0..MaxInput
    /\ nread = 0
    /\ lastRead = "none"
    /\ prev = [idx |-> 0, show |-> FALSE]
    /\ nextRun = 0
    /\ runStart = 0

\* ------------------------------------------------------ extract_json_block
Npos == -1     \* std::string::npos; positions are counted from 0 as in the code

\* content.find(ch)
Find(s, ch) ==
    IF \E i \in 1..Len(s) : s[i] = ch
    THEN (CHOOSE i \in 1..Len(s) : s[i] = ch /\ \A k \in 1..(i - 1) : s[k] # ch) - 1
    ELSE Npos

\* content.rfind(ch)
RFind(s, ch) ==
    IF \E i \in 1..Len(s) : s[i] = ch
    THEN (CHOOSE i \in 1..Len(s) : s[i] = ch /\ \A k \in (i + 1)..Len(s) : s[k] # ch) - 1
    ELSE Npos

\* s.substr(pos, count)
Substr(s, pos, count) == SubSeq(s, pos + 1, pos + count)

\* The outcome of a call: the value returned, or the exception thrown.
Thrown(type, what) == [ok |-> FALSE, type |-> type, what |-> what]
Returned(v) == [ok |-> TRUE, val |-> v]

\* The next statement F runs on the value of r; an exception in r skips it.
\* (r is bound once, as a statement runs once.)
Then(r, F(_)) == CHOOSE out \in {IF x.ok THEN F(x.val) ELSE x : x \in {r}} : TRUE

extract_inner_block(c) ==
    LET firstBrace == Find(c, "{")
        lastBrace  == Find(c, "}")
    IN  IF firstBrace = Npos \/ lastBrace = Npos \/ lastBrace <= firstBrace
        THEN Thrown("std::runtime_error", "no valid JSON object")
        ELSE Returned(Substr(c, firstBrace, lastBrace - firstBrace + 1))

extract_json_block(c) ==
    LET firstBrace == Find(c, "{")
        lastBrace  == RFind(c, "}")
    IN  IF firstBrace = Npos \/ lastBrace = Npos \/ lastBrace <= firstBrace
        THEN Thrown("std::runtime_error", "no valid JSON object")
        ELSE Returned(Substr(c, firstBrace, lastBrace - firstBrace + 1))

ContentChars == {"{", "}", "a", "#"}
ContentStrings == UNION {[1..n -> ContentChars] : n \in 0..MaxLen}

ExtractIdle ==
    /\ content = <<>>
    /\ extracted = [ok |-> FALSE, type |-> "", what |-> "not called"]
    /\ epc = "idle"

ExtractInit ==
    /\ content \in ContentStrings
    /\ extracted = [ok |-> FALSE, type |-> "", what |-> "not called"]
    /\ epc = "ready"

ExtractJsonBlock ==
    /\ epc = "ready"
    /\ extracted' = extract_json_block(content)
    /\ epc' = "done"
    /\ UNCHANGED <<content, viewerVars, parseVars, mainVars>>

\* ------------------------------------------------------ nlohmann::json values
\* A value carries its type t and, under a field named after the type, its payload.
JNull == [t |-> "null"]
JNum(n) == [t |-> "number", num |-> n]
JStr(s) == [t |-> "string", str |-> s]
JArr(a) == [t |-> "array", arr |-> a]
JObj(f) == [t |-> "object", obj |-> f]
NoFields == <<>>

\* j.contains(key)
Contains(j, key) == j.t = "object" /\ key \in DOMAIN j.obj

\* j.value(key, default) for a string default: type_error 306 on a non-object,
\* the default when the key is absent, type_error 302 when the member is not a string
Value(j, key, default) ==
    IF j.t # "object" THEN Thrown("json::type_error", "cannot use value()")
    ELSE IF key \notin DOMAIN j.obj THEN Returned(default)
    ELSE IF j.obj[key].t = "string" THEN Returned(j.obj[key].str)
    ELSE Thrown("json::type_error", "type must be string")

\* kp.get<std::string>()
GetString(j) ==
    IF j.t = "string" THEN Returned(j.str)
    ELSE Thrown("json::type_error", "type must be string")

\* the members the three array loops visit; an absent or non-array member gives none
ArrayOf(j, key) ==
    IF Contains(j, key) /\ j.obj[key].t = "array" THEN j.obj[key].arr ELSE <<>>

\* lines 319-339: fill a SummaryResult from the parsed block
FillSummary(j) ==
    LET summary == Value(j, "summary", <<>>)
        kps     == ArrayOf(j, "key_points")
        defs    == ArrayOf(j, "definitions")
        kpOk    == \A i \in 1..Len(kps) : GetString(kps[i]).ok
        defOk   == \A i \in 1..Len(defs) :
                      Value(defs[i], "term", <<>>).ok /\ Value(defs[i], "definition", <<>>).ok
    IN  IF ~summary.ok THEN summary
        ELSE IF ~kpOk THEN Thrown("json::type_error", "type must be string")
        ELSE IF ~defOk THEN Thrown("json::type_error", "definition element")
        ELSE Returned([ summary     |-> summary.val,
                        keyPoints   |-> [i \in 1..Len(kps) |-> GetString(kps[i]).val],
                        definitions |-> [i \in 1..Len(defs) |->
                            [ term       |-> Value(defs[i], "term", <<>>).val,
                              definition |-> Value(defs[i], "definition", <<>>).val ]] ])

\* lines 394-405: fill a FlashcardResult from the parsed block
FillFlashcards(j) ==
    LET fcs  == ArrayOf(j, "flashcards")
        fcOk == \A i \in 1..Len(fcs) :
                   Value(fcs[i], "question", <<>>).ok /\ Value(fcs[i], "answer", <<>>).ok
    IN  IF ~fcOk THEN Thrown("json::type_error", "flashcard element")
        ELSE Returned([ flashcards |-> [i \in 1..Len(fcs) |->
                            [ question |-> Value(fcs[i], "question", <<>>).val,
                              answer   |-> Value(fcs[i], "answer", <<>>).val ]] ])

\* ----------------------------------------------- JSON values given to the parsers
SeqsUpTo(S, n) == UNION {[1..k -> S] : k \in 0..n}
Optional(key, vals) == {NoFields} \cup {key :> x : x \in vals}

SummaryVals == {JStr(<<"S">>), JNum(5), JNull}
KeyPointElems == {JStr(<<"K">>), JNum(1)}
KeyPointVals == {JStr(<<"K">>)} \cup {JArr(a) : a \in SeqsUpTo(KeyPointElems, MaxArr)}
DefElems ==
    { JObj(NoFields), JObj("term" :> JStr(<<"T">>)),
      JObj(("term" :> JStr(<<"T">>)) @@ ("definition" :> JStr(<<"D">>))),
      JObj("term" :> JNum(1)), JNum(1) }
DefinitionVals == {JNull} \cup {JArr(a) : a \in SeqsUpTo(DefElems, MaxArr)}
CardElems ==
    { JObj(NoFields), JObj("question" :> JStr(<<"Q">>)),
      JObj(("question" :> JStr(<<"Q">>)) @@ ("answer" :> JStr(<<"A">>))),
      JObj("answer" :> JNull), JStr(<<"Q">>) }
FlashcardVals == {JObj(NoFields)} \cup {JArr(a) : a \in SeqsUpTo(CardElems, MaxArr)}

SummaryObjects ==
    { JObj(a @@ b @@ c) : a \in Optional("summary", SummaryVals),
                          b \in Optional("key_points", KeyPointVals),
                          c \in Optional("definitions", DefinitionVals) }
FlashcardObjects ==
    { JObj(a @@ b) : a \in Optional("summary", SummaryVals),
                     b \in Optional("flashcards", FlashcardVals) }

ParseIdle ==
    /\ parser = "none"
    /\ jsonIn = JNull
    /\ parsed = [ok |-> FALSE, type |-> "", what |-> "not called"]
    /\ ppc = "idle"

ParseInit ==
    /\ \/ parser = "summary" /\ jsonIn \in SummaryObjects
       \/ parser = "flashcards" /\ jsonIn \in FlashcardObjects
    /\ parsed = [ok |-> FALSE, type |-> "", what |-> "not called"]
    /\ ppc = "ready"

ParseSummary ==
    /\ ppc = "ready"
    /\ parser = "summary"
    /\ parsed' = FillSummary(jsonIn)
    /\ ppc' = "done"
    /\ UNCHANGED <<parser, jsonIn, viewerVars, extractVars, mainVars>>

ParseFlashcards ==
    /\ ppc = "ready"
    /\ parser = "flashcards"
    /\ parsed' = FillFlashcards(jsonIn)
    /\ ppc' = "done"
    /\ UNCHANGED <<parser, jsonIn, viewerVars, extractVars, mainVars>>

ViewerIdle ==
    /\ deck = <<>>
    /\ idx = 0
    /\ showAnswer = FALSE
    /\ cmd = <<>>
    /\ vpc = "idle"
    /\ screen = [kind |-> "none"]
    /\ avail = 0
    /\ nread = 0
    /\ lastRead = "none"
    /\ prev = [idx |-> 0, show |-> FALSE]
    /\ nextRun = 0
    /\ runStart = 0

\* ------------------------------------------------------------ call_openai_chat
\* What the environment does to one request: whether OPENAI_API_KEY is set,
\* whether curl_easy_init gives a handle, the CURLcode of curl_easy_perform,
\* the HTTP status and the response body.
CURLE_OK == "CURLE_OK"

HttpOk(code) == ~(code < 200 \/ code >= 300)

call_openai_chat(prompt, env) ==
    IF ~env.key
    THEN [r |-> Thrown("std::runtime_error", "OPENAI_API_KEY environment variable not set."),
          performed |-> FALSE]
    ELSE IF ~env.curl
    THEN [r |-> Thrown("std::runtime_error", "Failed to init curl"), performed |-> FALSE]
    ELSE IF env.res # CURLE_OK
    THEN [r |-> Thrown("std::runtime_error", "curl_easy_perform() failed"), performed |-> TRUE]
    ELSE IF ~HttpOk(env.http)
    THEN [r |-> Thrown("std::runtime_error", "OpenAI API returned HTTP code"), performed |-> TRUE]
    ELSE [r |-> Returned(env.body), performed |-> TRUE]

\* json::parse(rawResponse): the body either is JSON text or is not
ParseBody(body) ==
    IF body.valid THEN Returned(body.json)
    ELSE Thrown("json::parse_error", "syntax error in response")

\* j[key] on a non-const value: null becomes an object, a missing member is null
AtKey(j, key) ==
    IF j.t = "null" THEN Returned(JNull)
    ELSE IF j.t = "object"
         THEN Returned(IF key \in DOMAIN j.obj THEN j.obj[key] ELSE JNull)
    ELSE Thrown("json::type_error", "cannot use operator[] with a string argument")

\* j[0] on a non-const value: null becomes an array, a missing element is null
AtFirst(j) ==
    IF j.t = "null" THEN Returned(JNull)
    ELSE IF j.t = "array"
         THEN Returned(IF Len(j.arr) >= 1 THEN j.arr[1] ELSE JNull)
    ELSE Thrown("json::type_error", "cannot use operator[] with a numeric argument")

\* resJson["choices"][0]["message"]["content"]
AtChoices(j) == AtKey(j, "choices")
AtMessage(j) == AtKey(j, "message")
AtContent(j) == AtKey(j, "content")
MessageContent(resJson) ==
    Then(Then(Then(AtChoices(resJson), AtFirst), AtMessage), AtContent)

RECURSIVE PartsText(_)
PartsText(parts) ==
    IF parts = <<>> THEN <<>>
    ELSE LET part == Head(parts)
         IN  (IF Contains(part, "text") /\ part.obj["text"].t = "string"
              THEN part.obj["text"].str ELSE <<>>) \o PartsText(Tail(parts))

\* the content as one string: a string as it is, an array of parts joined
ContentText(msgContent) ==
    IF msgContent.t = "string" THEN Returned(msgContent.str)
    ELSE IF msgContent.t = "array" THEN Returned(PartsText(msgContent.arr))
    ELSE Thrown("std::runtime_error", "Unexpected content format in OpenAI response.")

\* ------------------------------------------------------ replies of the model
\* A reply is a sequence of pieces: each brace is a piece of its own, the text
\* between braces is kept in larger pieces.  "~~~" stands for a code fence.
TxtFlash1 ==
    << "{", "\"flashcards\":[", "{",
       "\"question\":\"What does photosynthesis convert?\",\"answer\":\"Light to energy.\"",
       "}", "]", "}" >>
TxtFlash2 ==
    << "{", "\"flashcards\":[", "{", "\"question\":\"Q1\",\"answer\":\"A1\"", "}", ",",
       "{", "\"question\":\"Q2\"", "}", "]", "}" >>
TxtFlashBad == << "{", "\"flashcards\":[1]", "}" >>
TxtSummary ==
    << "{", "\"summary\":\"S\",\"key_points\":[\"K\"],\"definitions\":[", "{",
       "\"term\":\"T\",\"definition\":\"D\"", "}", "]", "}" >>
TxtEmpty == << "{", "}" >>
TxtNotJson == << "{", "not json", "}" >>

\* json::parse(jsonText) on the blocks the model can extract
JsonParse(text) ==
    CASE text = TxtFlash1 ->
            Returned(JObj("flashcards" :> JArr(<<
                JObj(("question" :> JStr(<<"What does photosynthesis convert?">>))
                     @@ ("answer" :> JStr(<<"Light to energy.">>))) >>)))
      [] text = TxtFlash2 ->
            Returned(JObj("flashcards" :> JArr(<<
                JObj(("question" :> JStr(<<"Q1">>)) @@ ("answer" :> JStr(<<"A1">>))),
                JObj("question" :> JStr(<<"Q2">>)) >>)))
      [] text = TxtFlashBad ->
            Returned(JObj("flashcards" :> JArr(<<JNum(1)>>)))
      [] text = TxtSummary ->
            Returned(JObj(("summary" :> JStr(<<"S">>))
                          @@ ("key_points" :> JArr(<<JStr(<<"K">>)>>))
                          @@ ("definitions" :> JArr(<<
                                JObj(("term" :> JStr(<<"T">>))
                                     @@ ("definition" :> JStr(<<"D">>))) >>))))
      [] text = TxtEmpty -> Returned(JObj(NoFields))
      [] OTHER -> Thrown("json::parse_error", "syntax error in block")

Contents ==
    { <<"~~~json\n">> \o TxtFlash1 \o <<"\n~~~">>,
      TxtFlash2, TxtFlashBad, TxtEmpty,
      <<"Here is the summary: ">> \o TxtSummary,
      <<"Sorry, I cannot help.">>,
      <<"}", " and ", "{">>,
      <<"Result: ">> \o TxtNotJson }

RespWith(c) ==
    JObj("choices" :> JArr(<<JObj("message" :> JObj("content" :> c))>>))

ContentParts ==
    << JObj(("type" :> JStr(<<"text">>)) @@ ("text" :> JStr(<<"{", "\"flashcards\":[">>))),
       JObj("type" :> JStr(<<"image">>)),
       JNum(1),
       JObj(("type" :> JStr(<<"text">>)) @@ ("text" :> JNum(2))),
       JObj(("type" :> JStr(<<"text">>)) @@ ("text" :> JStr(<<"{",
            "\"question\":\"What does photosynthesis convert?\",\"answer\":\"Light to energy.\"",
            "}", "]", "}">>))) >>

ResponseJsons ==
    {RespWith(JStr(c)) : c \in Contents}
    \cup { RespWith(JArr(ContentParts)), RespWith(JNull), RespWith(JNum(1)),
           JObj(NoFields), JArr(<<>>), JObj("choices" :> JStr(<<"x">>)) }

Bodies ==
    {[valid |-> FALSE, json |-> JNull]} \cup {[valid |-> TRUE, json |-> j] : j \in ResponseJsons}

OkBody == [valid |-> TRUE, json |-> RespWith(JStr(TxtEmpty))]
Env(key, curl, res, http, body) ==
    [key |-> key, curl |-> curl, res |-> res, http |-> http, body |-> body]

\* Every way a request can go.  A request that fails early never looks at
\* the later fields, so one value of them is enough there.
Envs ==
    { Env(FALSE, TRUE, CURLE_OK, 200, OkBody),
      Env(TRUE, FALSE, CURLE_OK, 200, OkBody),
      Env(TRUE, TRUE, "CURLE_COULDNT_CONNECT", 0, OkBody) }
    \cup {Env(TRUE, TRUE, CURLE_OK, code, OkBody) : code \in {199, 300, 404, 500}}
    \cup {Env(TRUE, TRUE, CURLE_OK, code, body) : code \in {200, 299}, body \in Bodies}

\* ------------------------------------------- summarize_content / generate_flashcards
SummaryPrompt(text) == <<"You are an AI study assistant. ... TEXT:\n">> \o text
FlashcardPrompt(text) == <<"You are an AI that creates study flashcards. ... TEXT:\n">> \o text

\* lines 293-313 and 372-391: from the raw response to the parsed JSON block
BlockOf(raw) ==
    Then(Then(Then(Then(ParseBody(raw), MessageContent), ContentText),
              extract_json_block), JsonParse)

summarize_content(text, env) ==
    [ r |-> Then(Then(call_openai_chat(SummaryPrompt(text), env).r, BlockOf), FillSummary),
      performed |-> call_openai_chat(SummaryPrompt(text), env).performed ]

generate_flashcards(text, env) ==
    [ r |-> Then(Then(call_openai_chat(FlashcardPrompt(text), env).r, BlockOf), FillFlashcards),
      performed |-> call_openai_chat(FlashcardPrompt(text), env).performed ]

\* ---------------------------------------------------------------- main
\* std::cin >> choice (C++11): no number gives 0 and failbit, a number
\* outside int gives the nearest limit and failbit
ReadInt(line) ==
    LET r == StoI(line)
    IN  IF r.ok THEN [val |-> r.val, fail |-> FALSE]
        ELSE IF r.err = "out_of_range"
             THEN [val |-> IF r.neg THEN (-IntMax) - 1 ELSE IntMax, fail |-> TRUE]
        ELSE [val |-> 0, fail |-> TRUE]

\* first lines typed at the choice prompt (a blank line would be skipped)
ChoiceLines ==
    { <<"1">>, <<"2">>, <<"3">>, <<"0">>, <<"4">>, <<"-", "1">>,
      <<" ", "2">>, <<"3", "x">>, <<"x">>, <<"b", "o", "t", "h">>,
      <<"9", "9", "9", "9", "9", "9", "9", "9", "9", "9", "9">> }

\* lines typed as study text
TextLines == { <<>>, <<"a">>, <<"a", "\\">> }

NoException == [raised |-> FALSE, in |-> "", type |-> "", what |-> ""]
Raise(flow, r) == [raised |-> TRUE, in |-> flow, type |-> r.type, what |-> r.what]
NoSummary == [printed |-> FALSE]

MainIdle ==
    /\ pc = "viewer"
    /\ choice = 2
    /\ choiceIn = [eof |-> TRUE, line |-> <<>>]
    /\ cinFail = FALSE
    /\ userText = <<>>
    /\ sent = <<>>
    /\ ran = <<>>
    /\ summaryOut = NoSummary
    /\ exc = NoException
    /\ stderrOut = ""
    /\ exitCode = -1
    /\ curlGlobal = "none"

\* lines 412-425: curl_global_init; int choice = 3; std::cin >> choice; ignore
ReadChoice ==
    /\ pc = "choice"
    /\ curlGlobal' = "initialized"
    /\ \/ /\ avail = 0
          /\ choice' = choice
          /\ cinFail' = TRUE
          /\ choiceIn' = [eof |-> TRUE, line |-> <<>>]
          /\ avail' = avail
       \/ /\ avail > 0
          /\ \E line \in ChoiceLines :
                /\ choice' = ReadInt(line).val
                /\ cinFail' = ReadInt(line).fail
                /\ choiceIn' = [eof |-> FALSE, line |-> line]
                /\ avail' = IF ReadInt(line).fail THEN avail ELSE avail - 1
    /\ pc' = "firstline"
    /\ UNCHANGED <<deck, idx, showAnswer, cmd, vpc, screen, nread, lastRead, prev,
                   nextRun, runStart, userText, sent, ran, summaryOut, exc,
                   stderrOut, exitCode, extractVars, parseVars>>

\* an early return 0 of main(), after curl_global_cleanup
EarlyExit(msg) ==
    /\ stderrOut' = msg
    /\ curlGlobal' = "cleaned"
    /\ exitCode' = 0
    /\ pc' = "exit"

\* lines 438-452: the first line of the study text
ReadFirstLine ==
    /\ pc = "firstline"
    /\ \/ /\ (cinFail \/ avail = 0)
          /\ EarlyExit("No input detected. Exiting.")
          /\ cinFail' = TRUE
          /\ UNCHANGED <<avail, userText>>
       \/ /\ ~cinFail /\ avail > 0
          /\ avail' = avail - 1
          /\ \E line \in TextLines :
                IF line = <<>>
                THEN /\ EarlyExit("No text entered. Exiting.")
                     /\ UNCHANGED <<userText, cinFail>>
                ELSE /\ userText' = userText \o line
                     /\ pc' = "more"
                     /\ UNCHANGED <<cinFail, stderrOut, curlGlobal, exitCode>>
    /\ UNCHANGED <<deck, idx, showAnswer, cmd, vpc, screen, nread, lastRead, prev,
                   nextRun, runStart, choice, choiceIn, sent, ran, summaryOut, exc,
                   extractVars, parseVars>>

EndsWithBackslash(u) == u # <<>> /\ u[Len(u)] = "\\"

\* lines 472-476: the check after the loop
AfterText(u) ==
    IF u = <<>>
    THEN EarlyExit("No text entered. Exiting.")
    ELSE pc' = "summary" /\ UNCHANGED <<stderrOut, curlGlobal, exitCode>>

\* lines 457-469: one turn of the continuation loop
ContinueText ==
    /\ pc = "more"
    /\ EndsWithBackslash(userText)
    /\ LET u == SubSeq(userText, 1, Len(userText) - 1) \o <<"\n">>
       IN  \/ /\ avail = 0
              /\ userText' = u
              /\ cinFail' = TRUE
              /\ avail' = avail
              /\ AfterText(u)
           \/ /\ avail > 0
              /\ avail' = avail - 1
              /\ cinFail' = cinFail
              /\ \E line \in TextLines :
                    IF line = <<>>
                    THEN userText' = u /\ AfterText(u)
                    ELSE /\ userText' = u \o line
                         /\ UNCHANGED <<pc, stderrOut, curlGlobal, exitCode>>
    /\ UNCHANGED <<deck, idx, showAnswer, cmd, vpc, screen, nread, lastRead, prev,
                   nextRun, runStart, choice, choiceIn, sent, ran, summaryOut, exc,
                   extractVars, parseVars>>

\* the loop condition fails: lines 457 and 472
TextDone ==
    /\ pc = "more"
    /\ ~EndsWithBackslash(userText)
    /\ AfterText(userText)
    /\ UNCHANGED <<viewerVars, choice, choiceIn, cinFail, userText, sent, ran,
                   summaryOut, exc, extractVars, parseVars>>

RunsSummary(c) == c = 1 \/ c = 3

RunsFlashcards(c) == c = 2 \/ c = 3

\* lines 482-496: the summary flow
SummaryFlow ==
    /\ pc = "summary"
    /\ RunsSummary(choice)
    /\ ran' = Append(ran, "summary")
    /\ \E env \in Envs : \E s \in {summarize_content(userText, env)} :
              /\ sent' = IF s.performed
                         THEN Append(sent, [flow |-> "summary", prompt |-> SummaryPrompt(userText)])
                         ELSE sent
              /\ IF s.r.ok
                 THEN /\ summaryOut' = [printed |-> TRUE, result |-> s.r.val]
                      /\ exc' = exc
                      /\ pc' = "flashcards"
                 ELSE /\ summaryOut' = summaryOut
                      /\ exc' = Raise("summary", s.r)
                      /\ pc' = "catch"
    /\ UNCHANGED <<viewerVars, choice, choiceIn, cinFail, userText, stderrOut,
                   exitCode, curlGlobal, extractVars, parseVars>>

SkipSummary ==
    /\ pc = "summary"
    /\ ~RunsSummary(choice)
    /\ pc' = "flashcards"
    /\ UNCHANGED <<viewerVars, choice, choiceIn, cinFail, userText, sent, ran,
                   summaryOut, exc, stderrOut, exitCode, curlGlobal, extractVars, parseVars>>

\* lines 499-503: the flashcard flow up to the call of run_flashcard_viewer
FlashcardFlow ==
    /\ pc = "flashcards"
    /\ RunsFlashcards(choice)
    /\ ran' = Append(ran, "flashcards")
    /\ \E env \in Envs : \E f \in {generate_flashcards(userText, env)} :
              /\ sent' = IF f.performed
                         THEN Append(sent, [flow |-> "flashcards", prompt |-> FlashcardPrompt(userText)])
                         ELSE sent
              /\ IF f.r.ok
                 THEN /\ deck' = f.r.val.flashcards
                      /\ vpc' = "start"
                      /\ exc' = exc
                      /\ pc' = "viewer"
                 ELSE /\ UNCHANGED <<deck, vpc>>
                      /\ exc' = Raise("flashcards", f.r)
                      /\ pc' = "catch"
    /\ UNCHANGED <<idx, showAnswer, cmd, screen, avail, nread, lastRead, prev,
                   nextRun, runStart, choice, choiceIn, cinFail, userText,
                   summaryOut, stderrOut, exitCode, curlGlobal, extractVars, parseVars>>

SkipFlashcards ==
    /\ pc = "flashcards"
    /\ ~RunsFlashcards(choice)
    /\ pc' = "cleanup"
    /\ UNCHANGED <<viewerVars, choice, choiceIn, cinFail, userText, sent, ran,
                   summaryOut, exc, stderrOut, exitCode, curlGlobal, extractVars, parseVars>>

\* run_flashcard_viewer returned
ViewerReturn ==
    /\ pc = "viewer"
    /\ vpc = "done"
    /\ ran # <<>>
    /\ pc' = "cleanup"
    /\ UNCHANGED <<viewerVars, choice, choiceIn, cinFail, userText, sent, ran,
                   summaryOut, exc, stderrOut, exitCode, curlGlobal, extractVars, parseVars>>

\* the exception classes that catch (const std::exception&) accepts
StdRuntimeErrorOnly(type) == type = "std::runtime_error"
DerivesFromStdException(type) ==
    type \in {"std::runtime_error", "json::parse_error", "json::type_error"}

\* lines 505-508: the handler, or std::terminate when nothing catches
CatchException ==
    /\ pc = "catch"
    /\ IF DerivesFromStdException(exc.type)
       THEN /\ stderrOut' = exc.what
            /\ pc' = "cleanup"
       ELSE /\ stderrOut' = "terminate called"
            /\ pc' = "terminated"
    /\ UNCHANGED <<viewerVars, choice, choiceIn, cinFail, userText, sent, ran,
                   summaryOut, exc, exitCode, curlGlobal, extractVars, parseVars>>

\* lines 511-512: curl_global_cleanup(); return 0;
Cleanup ==
    /\ pc = "cleanup"
    /\ curlGlobal' = "cleaned"
    /\ exitCode' = 0
    /\ pc' = "exit"
    /\ UNCHANGED <<viewerVars, choice, choiceIn, cinFail, userText, sent, ran,
                   summaryOut, exc, stderrOut, extractVars, parseVars>>

MainInit ==
    /\ pc = "choice"
    /\ choice = 3
    /\ choiceIn = [eof |-> TRUE, line |-> <<>>]
    /\ cinFail = FALSE
    /\ userText = <<>>
    /\ sent = <<>>
    /\ ran = <<>>
    /\ summaryOut = NoSummary
    /\ exc = NoException
    /\ stderrOut = ""
    /\ exitCode = -1
    /\ curlGlobal = "none"

\* ------------------------------------------------------------ specifications
\* the whole program: main() with the viewer it starts
Init ==
    /\ MainInit
    /\ deck = <<>> /\ idx = 0 /\ showAnswer = FALSE /\ cmd = <<>> /\ vpc = "idle"
    /\ screen = [kind |-> "none"] /\ avail \in 0..MaxInput /\ nread = 0
    /\ lastRead = "none" /\ prev = [idx |-> 0, show |-> FALSE]
    /\ nextRun = 0 /\ runStart = 0
    /\ ExtractIdle
    /\ ParseIdle

Next ==
    \/ ReadChoice
    \/ ReadFirstLine
    \/ ContinueText
    \/ TextDone
    \/ SummaryFlow
    \/ SkipSummary
    \/ FlashcardFlow
    \/ SkipFlashcards
    \/ ViewerStep
    \/ ViewerReturn
    \/ CatchException
    \/ Cleanup

Spec == Init /\ [][Next]_vars

\* run_flashcard_viewer alone, on every deck and every input
ViewerAlone == ViewerInit /\ ExtractIdle /\ ParseIdle /\ MainIdle
ViewerSpec == ViewerAlone /\ [][ViewerStep]_vars
\* the viewer keeps running while it can: one thread with no other work
ViewerLiveSpec == ViewerSpec /\ WF_vars(ViewerStep)

\* extract_json_block alone, on every content
ExtractAlone == ExtractInit /\ ViewerIdle /\ ParseIdle /\ MainIdle
ExtractSpec == ExtractAlone /\ [][ExtractJsonBlock]_vars

\* the two parsers alone, on every JSON value
ParseNext == ParseSummary \/ ParseFlashcards
ParseAlone == ParseInit /\ ViewerIdle /\ ExtractIdle /\ MainIdle
ParseSpec == ParseAlone /\ [][ParseNext]_vars

\* ------------------------------------------------- the command vocabulary
\* The commands as the specification lists them (section 4.4), stated
\* independently of the code's branch chain.
IsFlipCmd(c) == c \in {W_f, W_flip}
IsNextCmd(c) == c \in {W_n, W_next}
IsPrevCmd(c) == c \in {W_p, W_prev}
IsRandomCmd(c) == c \in {W_r, W_random}
IsQuitCmd(c) == c \in {W_q, W_quit}

\* <num>: an optional sign followed by one or more digits and nothing else
IsNumeral(s) ==
    /\ Len(s) >= 1
    /\ LET body == IF s[1] \in {"+", "-"} THEN Tail(s) ELSE s
       IN  Len(body) >= 1 /\ \A i \in 1..Len(body) : body[i] \in Digits

\* the value of a digit string, counted only up to n+1 (n+1 stands for more)
RECURSIVE ValueUpTo(_, _)
ValueUpTo(body, n) ==
    IF body = <<>> THEN 0
    ELSE LET hi == ValueUpTo(SubSeq(body, 1, Len(body) - 1), n)
             v  == hi * 10 + DigitVal(body[Len(body)])
         IN  IF hi > n \/ v > n THEN n + 1 ELSE v

\* the card number the numeral s denotes on a deck of n cards
NumeralCard(s, n) == ValueUpTo(IF s[1] \in {"+", "-"} THEN Tail(s) ELSE s, n)

\* whether the numeral s denotes a card number of a deck of n cards
NumeralInRange(s, n) == s[1] # "-" /\ NumeralCard(s, n) >= 1 /\ NumeralCard(s, n) <= n

JumpPrefixes == {<<"j", " ">>, <<"j", "u", "m", "p", " ">>}

\* the text after "j " or "jump ", or <<>> when c has neither prefix
JumpArg(c) ==
    IF StartsWith(c, <<"j", " ">>) THEN SubSeq(c, 3, Len(c))
    ELSE IF StartsWith(c, <<"j", "u", "m", "p", " ">>) THEN SubSeq(c, 6, Len(c))
    ELSE <<>>

HasJumpPrefix(c) == \E w \in JumpPrefixes : StartsWith(c, w) /\ Len(c) > Len(w)
IsJumpCmd(c) == HasJumpPrefix(c) /\ IsNumeral(JumpArg(c))
IsBareInteger(c) == IsNumeral(c)

IsListed(c) ==
    \/ IsFlipCmd(c) \/ IsNextCmd(c) \/ IsPrevCmd(c) \/ IsRandomCmd(c)
    \/ IsQuitCmd(c) \/ IsJumpCmd(c) \/ IsBareInteger(c)

\* a line has just been handled and the loop is about to render again
Handled == vpc = "display" /\ lastRead = "line"
N == Len(deck)

\* C1: whenever a card is rendered the deck is non-empty and 0 <= idx <= N-1;
\* an empty deck is never rendered and no input is read for it.
C1_IndexValid ==
    /\ vpc \in {"display", "getline"} => N > 0 /\ idx >= 0 /\ idx <= N - 1
    /\ screen.kind = "card" => N > 0 /\ screen.index >= 1 /\ screen.index <= N
                               /\ screen.total = N
    /\ N = 0 => screen.kind \in {"none", "notice"} /\ nread = 0
                /\ vpc \in {"start", "done"}

C1_Witness ==
    /\ screen.kind = "card" /\ screen.index = N /\ N >= 2 /\ nread >= 2
    /\ vpc = "display" /\ idx = 0

\* C2 as stated: flip inverts answerVisible and keeps currentIndex; after any
\* next, prev, random or jump command answerVisible is false.
C2_AnyJumpHides ==
    Handled =>
        /\ IsFlipCmd(cmd) => showAnswer = ~prev.show /\ idx = prev.idx
        /\ (IsNextCmd(cmd) \/ IsPrevCmd(cmd) \/ IsRandomCmd(cmd) \/ IsJumpCmd(cmd))
              => showAnswer = FALSE

\* C2 amended: flip inverts answerVisible and keeps currentIndex; after next,
\* prev, random, and after a jump whose number is within 1..N, answerVisible
\* is false; a jump whose number is outside 1..N leaves answerVisible as it was.
C2_FlipAndNavigation ==
    Handled =>
        /\ IsFlipCmd(cmd) => showAnswer = ~prev.show /\ idx = prev.idx
        /\ (IsNextCmd(cmd) \/ IsPrevCmd(cmd) \/ IsRandomCmd(cmd)) => showAnswer = FALSE
        /\ IsJumpCmd(cmd) =>
              IF NumeralInRange(JumpArg(cmd), N)
              THEN showAnswer = FALSE
              ELSE showAnswer = prev.show

C2_Witness ==
    /\ Handled /\ IsJumpCmd(cmd) /\ NumeralInRange(JumpArg(cmd), N)
    /\ prev.show = TRUE /\ showAnswer = FALSE

\* C3: j <num>, jump <num> and a bare <num>: within 1..N the index becomes
\* num-1 and the answer is hidden; out of range, or with a target that is not
\* a number, the index is unchanged.
C3_Jump ==
    Handled =>
        /\ IsJumpCmd(cmd) =>
              IF NumeralInRange(JumpArg(cmd), N)
              THEN idx = NumeralCard(JumpArg(cmd), N) - 1 /\ showAnswer = FALSE
              ELSE idx = prev.idx
        /\ IsBareInteger(cmd) =>
              IF NumeralInRange(cmd, N)
              THEN idx = NumeralCard(cmd, N) - 1 /\ showAnswer = FALSE
              ELSE idx = prev.idx
        /\ (HasJumpPrefix(cmd) /\ ~IsNumeral(JumpArg(cmd))) => idx = prev.idx

\* C4: a line that is none of the listed commands changes neither
\* currentIndex nor answerVisible and does not end the loop.
C4_UnlistedIgnored ==
    (lastRead = "line" /\ ~IsListed(cmd)) =>
        /\ vpc # "done"
        /\ idx = prev.idx
        /\ showAnswer = prev.show

\* C5: next goes to (i+1) mod N and prev to (i-1+N) mod N, wrapping at both
\* ends; N next commands in a row return to the index they started from with
\* the answer hidden.
C5_Wraparound ==
    /\ (Handled /\ IsNextCmd(cmd)) =>
          idx = (IF prev.idx = N - 1 THEN 0 ELSE prev.idx + 1)
    /\ (Handled /\ IsPrevCmd(cmd)) =>
          idx = (IF prev.idx = 0 THEN N - 1 ELSE prev.idx - 1)
    /\ (N > 0 /\ nextRun = N) => idx = runStart /\ showAnswer = FALSE

C5_Witness == N >= 2 /\ nextRun = N /\ runStart = 1 /\ idx = 1

\* C6: the loop ends exactly on q, quit or end of input; nothing is handled
\* after it ended; on a finite input stream it ends.
C6_Termination ==
    /\ [](  (vpc = "done" /\ N > 0) <=>
            (lastRead = "eof" \/ (lastRead = "line" /\ IsQuitCmd(cmd))))
    /\ [][vpc = "done" => UNCHANGED <<idx, showAnswer, cmd, nread, avail, vpc>>]_vars
    /\ <>(vpc = "done")

C6_Witness == vpc = "done" /\ N > 0 /\ IsQuitCmd(cmd) /\ avail > 0 /\ nread >= 2

\* C7: the block is exactly the text from the first '{' to the last '}' when
\* both exist and the last '}' comes after the first '{'; otherwise the
\* extraction fails.  Nothing outside that span is returned.
C7_FirstToLastBrace ==
    epc = "done" =>
        LET opens  == {i \in 1..Len(content) : content[i] = "{"}
            closes == {i \in 1..Len(content) : content[i] = "}"}
            lo     == CHOOSE m \in opens : \A x \in opens : m <= x
            hi     == CHOOSE m \in closes : \A x \in closes : m >= x
        IN  IF opens # {} /\ closes # {} /\ hi > lo
            THEN /\ extracted.ok
                 /\ extracted.val = [i \in 1..(hi - lo + 1) |-> content[lo + i - 1]]
                 /\ \A i \in 1..Len(content) :
                       (i < lo \/ i > hi) => Len(extracted.val) < Len(content)
            ELSE ~extracted.ok

C7_Witness ==
    /\ epc = "done" /\ extracted.ok
    /\ Len(content) = MaxLen /\ content[1] = "#" /\ content[MaxLen] = "#"
    /\ Len(extracted.val) = MaxLen - 2

\* C8: for every syntactically valid JSON value the parsers return a result,
\* with "" or an empty sequence wherever a field is missing or malformed, and
\* raise no error.
C8_NeverRaises ==
    ppc = "done" =>
        /\ parsed.ok
        /\ parser = "summary" =>
              /\ ~Contains(jsonIn, "summary") => parsed.val.summary = <<>>
              /\ ArrayOf(jsonIn, "key_points") = <<>> => parsed.val.keyPoints = <<>>
              /\ Len(parsed.val.definitions) = Len(ArrayOf(jsonIn, "definitions"))
        /\ parser = "flashcards" =>
              Len(parsed.val.flashcards) = Len(ArrayOf(jsonIn, "flashcards"))

\* C9: a failure in any stage ends the request and the session: the request
\* is sent at most once, nothing of the session runs after the failure, the
\* viewer is not started, and main() reports the error and returns normally.
C9_FailureIsTerminal ==
    /\ \A f \in {"summary", "flashcards"} :
          Cardinality({i \in 1..Len(sent) : sent[i].flow = f}) <= 1
    /\ Len(sent) <= Len(ran)
    /\ pc # "terminated"
    /\ exc.raised =>
          /\ pc \in {"catch", "cleanup", "exit"}
          /\ ran # <<>> /\ ran[Len(ran)] = exc.in
          /\ vpc = "idle" /\ deck = <<>> /\ screen.kind = "none" /\ nread = 0
          /\ exc.in = "summary" => ~summaryOut.printed
          /\ pc \in {"cleanup", "exit"} => stderrOut = exc.what
    /\ pc = "exit" => exitCode = 0 /\ curlGlobal = "cleaned"

C9_Witness ==
    /\ pc = "exit" /\ exc.raised /\ exc.in = "flashcards"
    /\ exc.type = "json::parse_error"
    /\ summaryOut.printed /\ Len(sent) = 2 /\ ran = <<"summary", "flashcards">>

\* what was typed at the choice prompt, as the specification reads it
TypedNumber == ~choiceIn.eof /\ IsNumeral(TrimLeading(choiceIn.line))
TypedChoice == NumeralCard(TrimLeading(choiceIn.line), 3)
NothingNumeric ==
    \/ choiceIn.eof
    \/ LET t == TrimLeading(choiceIn.line)
       IN  t = <<>> \/ t[1] \notin (Digits \cup {"+", "-"})
FlowsFor(k) ==
    IF k = 1 THEN <<"summary">>
    ELSE IF k = 2 THEN <<"flashcards">>
    ELSE <<"summary", "flashcards">>

\* C10: choice 1 runs the summary flow only, 2 the flashcard flow only, 3
\* both in that order; a choice that is no number counts as 3, and both
\* flows run on the text entered after it.
C10_ChoiceSelectsFlows ==
    /\ ( /\ pc \in {"cleanup", "exit"} /\ ~exc.raised /\ userText # <<>>
         /\ TypedNumber /\ TrimLeading(choiceIn.line)[1] # "-" /\ TypedChoice \in {1, 2, 3} )
          => ran = FlowsFor(TypedChoice)
    /\ (pc # "choice" /\ NothingNumeric) => choice = 3
    /\ ( /\ pc = "exit" /\ NothingNumeric /\ ~exc.raised
         /\ avail > 1 /\ stderrOut # "No text entered. Exiting." )
          => ran = FlowsFor(3)

====
